---- MODULE Spec2Model ----
(***************************************************************************)
(* Model of whisperx_api_server: the transcript formatting layer           *)
(* (formatters.py) and the API-key verification glue (dependencies.py).    *)
(*                                                                         *)
(* Python dicts are records with a fixed set of fields plus a field `keys` *)
(* holding the keys that are actually present; a field whose key is absent *)
(* carries a fixed filler value.  Python strings are sequences of tokens   *)
(* (single characters for transcript text, so that strip() and replace()   *)
(* are computed character by character).                                   *)
(***************************************************************************)
EXTENDS Integers, Sequences, FiniteSets, TLC

VARIABLES transcript, call, resp, file, cache, config, auth

vars == <<transcript, call, resp, file, cache, config, auth>>
fmtVars == <<transcript, call, resp>>
authVars == <<file, cache, config, auth>>

(***************************************************************************)
(* Bounds                                                                  *)
(***************************************************************************)
MaxSegs == 3
MaxMtime == 2

(***************************************************************************)
(* Python dict / str primitives                                            *)
(***************************************************************************)
\* d.get(key, default)
Get(d, key, default) == IF key \in d.keys THEN d[key] ELSE default

\* d[key] = val
Put(d, key, val) == [d EXCEPT ![key] = val, !.keys = @ \cup {key}]

Whitespace == {" ", "\n", "\t"}

RECURSIVE LStrip(_)
LStrip(s) ==
    IF Len(s) = 0 THEN s
    ELSE IF Head(s) \in Whitespace THEN LStrip(Tail(s)) ELSE s

RECURSIVE RStrip(_)
RStrip(s) ==
    IF Len(s) = 0 THEN s
    ELSE IF s[Len(s)] \in Whitespace THEN RStrip(SubSeq(s, 1, Len(s) - 1)) ELSE s

\* str.strip()
Strip(s) == RStrip(LStrip(s))

\* "\n".join(lines)
RECURSIVE Join(_)
Join(lines) ==
    IF Len(lines) = 0 THEN <<>>
    ELSE IF Len(lines) = 1 THEN lines[1]
    ELSE lines[1] \o <<"\n">> \o Join(Tail(lines))

\* text.replace("|", "\\|")
RECURSIVE EscapePipes(_)
EscapePipes(s) ==
    IF Len(s) = 0 THEN <<>>
    ELSE (IF Head(s) = "|" THEN <<"\\", "|">> ELSE <<Head(s)>>) \o EscapePipes(Tail(s))

Digit(n) == <<"0", "1", "2", "3", "4", "5", "6", "7", "8", "9">>[n + 1]

RECURSIVE Decimal(_)
Decimal(n) == IF n < 10 THEN <<Digit(n)>> ELSE Decimal(n \div 10) \o <<Digit(n % 10)>>

\* f"{n:02d}"
Pad2(n) == IF n < 10 THEN <<"0">> \o Decimal(n) ELSE Decimal(n)

(***************************************************************************)
(* MediaType (whisperx_api_server.config)                                  *)
(***************************************************************************)
APPLICATION_JSON == "application/json"
TEXT_PLAIN == "text/plain"
TEXT_VTT == "text/vtt"
TEXT_MARKDOWN == "text/markdown"

(***************************************************************************)
(* Transcript records                                                      *)
(***************************************************************************)
Seg(ks, speaker, text, start) ==
    [keys |-> ks, speaker |-> speaker, text |-> text, start |-> start]

SampleSegments ==
    { Seg({"speaker", "text", "start"}, "Alice", <<" ", "h", "i", " ">>, 75),
      Seg({"speaker", "text", "start"}, "Bob", <<"a", "|", "b">>, 3725),
      Seg({"text"}, "", <<"o", "k">>, 0),
      Seg({"speaker", "text", "start"}, "Alice", <<" ", "\n">>, 0),
      Seg({"speaker", "text"}, "Carol", <<>>, 0),
      Seg({"speaker", "start"}, "Bob", <<>>, 5) }

SegLists == UNION {[1..n -> SampleSegments] : n \in 0..MaxSegs}

\* the empty dict {} as a value of transcript["segments"]
EmptyResult == [type |-> "dict", keys |-> {}, segments |-> <<>>, language |-> ""]

ListResult(items) == [type |-> "list", keys |-> {}, segments |-> items, language |-> ""]

DictResult(items) == [type |-> "dict", keys |-> {"segments"}, segments |-> items, language |-> ""]

SegmentsValues == {ListResult(s) : s \in SegLists} \cup {DictResult(s) : s \in SegLists}

NoWriterOutput == <<>>

EmptyTranscript ==
    [keys |-> {}, text |-> <<>>, language |-> "", segments |-> EmptyResult,
     vtt_text |-> NoWriterOutput]

\* The transcript records supplied to the formatting layer: "language" and
\* "segments" are always there (the code indexes them), "text" is read with a
\* default; "segments" is a list of segments or a record holding that list.
Transcripts ==
    { [keys |-> ks \cup {"language", "segments"},
       text |-> IF "text" \in ks THEN <<"hi", " ", "a|b", " ", "ok">> ELSE <<>>,
       language |-> "en",
       segments |-> sv,
       vtt_text |-> NoWriterOutput] :
         ks \in SUBSET {"text"}, sv \in SegmentsValues }

(***************************************************************************)
(* formatters.py                                                           *)
(***************************************************************************)
\* _get_segments without the nested shape: only a "segments" list is read
_get_segments_list_only(t) ==
    LET segments == Get(t, "segments", EmptyResult)
    IN  IF segments.type = "dict" THEN <<>> ELSE segments.segments

_get_segments(t) ==
    LET segments == Get(t, "segments", EmptyResult)
    IN  IF segments.type = "dict"
        THEN Get(segments, "segments", <<>>)
        ELSE segments.segments

\* seconds are whole numbers here; the int() calls of the code drop fractions
_format_timestamp(seconds) ==
    LET hours == seconds \div 3600
        minutes == (seconds % 3600) \div 60
        secs == seconds % 60
    IN  IF hours > 0
        THEN Pad2(hours) \o <<":">> \o Pad2(minutes) \o <<":">> \o Pad2(secs)
        ELSE Pad2(minutes) \o <<":">> \o Pad2(secs)

RECURSIVE md_basic_lines(_, _)
md_basic_lines(segments, include_timestamps) ==
    IF Len(segments) = 0 THEN <<>>
    ELSE LET segment == Head(segments)
             speaker == Get(segment, "speaker", "Unknown")
             text == Strip(Get(segment, "text", <<>>))
             timestamp == _format_timestamp(Get(segment, "start", 0))
             rest == md_basic_lines(Tail(segments), include_timestamps)
         IN  IF Len(text) = 0 THEN rest
             ELSE IF include_timestamps
                  THEN << <<speaker, " ", "[">> \o timestamp \o <<"]", ":", " ">> \o text,
                          <<>> >> \o rest
                  ELSE << <<speaker, ":", " ">> \o text, <<>> >> \o rest

format_md_basic(t, include_timestamps) ==
    Strip(Join(md_basic_lines(_get_segments(t), include_timestamps)))

RECURSIVE md_list_lines(_, _)
md_list_lines(segments, include_timestamps) ==
    IF Len(segments) = 0 THEN <<>>
    ELSE LET segment == Head(segments)
             speaker == Get(segment, "speaker", "Unknown")
             text == Strip(Get(segment, "text", <<>>))
             timestamp == _format_timestamp(Get(segment, "start", 0))
             rest == md_list_lines(Tail(segments), include_timestamps)
         IN  IF Len(text) = 0 THEN rest
             ELSE IF include_timestamps
                  THEN << <<"-", " ", "**", speaker, "**", " ", "[">> \o timestamp
                            \o <<"]", ":", " ">> \o text >> \o rest
                  ELSE << <<"-", " ", "**", speaker, "**", ":", " ">> \o text >> \o rest

format_md_list(t, include_timestamps) ==
    Join(md_list_lines(_get_segments(t), include_timestamps))

RECURSIVE md_quote_lines(_, _)
md_quote_lines(segments, include_timestamps) ==
    IF Len(segments) = 0 THEN <<>>
    ELSE LET segment == Head(segments)
             speaker == Get(segment, "speaker", "Unknown")
             text == Strip(Get(segment, "text", <<>>))
             timestamp == _format_timestamp(Get(segment, "start", 0))
             rest == md_quote_lines(Tail(segments), include_timestamps)
         IN  IF Len(text) = 0 THEN rest
             ELSE IF include_timestamps
                  THEN << <<">", " ", "**", speaker, "**", " ", "[">> \o timestamp
                            \o <<"]", ":", " ">> \o text, <<">">> >> \o rest
                  ELSE << <<">", " ", "**", speaker, "**", ":", " ">> \o text,
                          <<">">> >> \o rest

format_md_quote(t, include_timestamps) ==
    LET lines == md_quote_lines(_get_segments(t), include_timestamps)
    IN  IF Len(lines) > 0 /\ lines[Len(lines)] = <<">">>
        THEN Join(SubSeq(lines, 1, Len(lines) - 1))
        ELSE Join(lines)

\* list(OrderedDict.fromkeys(seq))
RECURSIVE OrderedKeys(_)
OrderedKeys(seq) ==
    IF Len(seq) = 0 THEN <<>>
    ELSE LET prev == OrderedKeys(SubSeq(seq, 1, Len(seq) - 1))
             last == seq[Len(seq)]
         IN  IF \E i \in 1..Len(prev) : prev[i] = last THEN prev ELSE Append(prev, last)

\* the speakers of all segments, those without text included
RECURSIVE SpeakersOfAll(_)
SpeakersOfAll(segments) ==
    IF Len(segments) = 0 THEN <<>>
    ELSE <<Get(Head(segments), "speaker", "Unknown")>> \o SpeakersOfAll(Tail(segments))

\* seg.get("speaker", "Unknown") for seg in segments if seg.get("text", "").strip()
RECURSIVE SpeakersWithText(_)
SpeakersWithText(segments) ==
    IF Len(segments) = 0 THEN <<>>
    ELSE LET seg == Head(segments)
         IN  (IF Len(Strip(Get(seg, "text", <<>>))) > 0
              THEN <<Get(seg, "speaker", "Unknown")>>
              ELSE <<>>) \o SpeakersWithText(Tail(segments))

RECURSIVE two_speaker_rows(_, _, _)
two_speaker_rows(segments, speakers, include_timestamps) ==
    IF Len(segments) = 0 THEN <<>>
    ELSE LET segment == Head(segments)
             speaker == Get(segment, "speaker", "Unknown")
             stripped == Strip(Get(segment, "text", <<>>))
             escaped == EscapePipes(stripped)
             timestamp == _format_timestamp(Get(segment, "start", 0))
             text == IF include_timestamps
                     THEN <<"[">> \o timestamp \o <<"]", " ">> \o escaped
                     ELSE escaped
             col1 == IF speaker = speakers[1] THEN text ELSE <<>>
             col2 == IF speaker = speakers[1] THEN <<>> ELSE text
             rest == two_speaker_rows(Tail(segments), speakers, include_timestamps)
         IN  IF Len(stripped) = 0 THEN rest
             ELSE << <<"|", " ">> \o col1 \o <<" ", "|", " ">> \o col2 \o <<" ", "|">> >>
                  \o rest

_format_two_speaker_table(segments, speakers, include_timestamps) ==
    Join(<< <<"|", " ", speakers[1], " ", "|", " ", speakers[2], " ", "|">>,
            <<"|", " ", "---", " ", "|", " ", "---", " ", "|">> >>
         \o two_speaker_rows(segments, speakers, include_timestamps))

RECURSIVE multi_speaker_rows(_, _)
multi_speaker_rows(segments, include_timestamps) ==
    IF Len(segments) = 0 THEN <<>>
    ELSE LET segment == Head(segments)
             speaker == Get(segment, "speaker", "Unknown")
             stripped == Strip(Get(segment, "text", <<>>))
             text == EscapePipes(stripped)
             timestamp == _format_timestamp(Get(segment, "start", 0))
             rest == multi_speaker_rows(Tail(segments), include_timestamps)
         IN  IF Len(stripped) = 0 THEN rest
             ELSE IF include_timestamps
                  THEN << <<"|", " ">> \o timestamp \o <<" ", "|", " ", speaker, " ", "|", " ">>
                            \o text \o <<" ", "|">> >> \o rest
                  ELSE << <<"|", " ", speaker, " ", "|", " ">> \o text \o <<" ", "|">> >>
                       \o rest

_format_multi_speaker_table(segments, include_timestamps) ==
    Join((IF include_timestamps
          THEN << <<"|", " ", "Time", " ", "|", " ", "Speaker", " ", "|", " ", "Message", " ", "|">>,
                  <<"|", " ", "---", " ", "|", " ", "---", " ", "|", " ", "---", " ", "|">> >>
          ELSE << <<"|", " ", "Speaker", " ", "|", " ", "Message", " ", "|">>,
                  <<"|", " ", "---", " ", "|", " ", "---", " ", "|">> >>)
         \o multi_speaker_rows(segments, include_timestamps))

format_md_table(t, include_timestamps) ==
    LET segments == _get_segments(t)
        speakers == OrderedKeys(SpeakersWithText(segments))
    IN  IF Len(speakers) = 2
        THEN _format_two_speaker_table(segments, speakers, include_timestamps)
        ELSE _format_multi_speaker_table(segments, include_timestamps)

\* keyword arguments of format_transcription
KwargsSamples ==
    { [keys |-> {}, include_timestamps |-> FALSE, highlight_words |-> FALSE],
      [keys |-> {"include_timestamps"}, include_timestamps |-> TRUE, highlight_words |-> FALSE],
      [keys |-> {"include_timestamps", "highlight_words"}, include_timestamps |-> FALSE,
       highlight_words |-> TRUE] }

update_options(kwargs, defaults) ==
    [defaults EXCEPT
        !.max_line_width = Get(kwargs, "max_line_width", defaults.max_line_width),
        !.max_line_count = Get(kwargs, "max_line_count", defaults.max_line_count),
        !.highlight_words = Get(kwargs, "highlight_words", defaults.highlight_words)]

\* writer.write_result(result, output, options) of whisperx.utils: what the
\* writer writes is kept as the writer's name and the option that changes it.
write_result(writer_class, result, options) ==
    <<writer_class>> \o (IF options.highlight_words THEN <<"highlight_words">> ELSE <<>>)

\* Returns the transcript as the call leaves it, the exception raised ("" for
\* none) and the output string.
handle_whisperx_format(t, writer_class, options) ==
    IF "language" \notin t.keys
    THEN [transcript |-> t, exc |-> "KeyError", output |-> <<>>]
    ELSE IF "segments" \notin t.keys
    THEN [transcript |-> t, exc |-> "KeyError", output |-> <<>>]
    ELSE IF t.segments.type # "dict"
    THEN [transcript |-> t, exc |-> "TypeError", output |-> <<>>]
    ELSE LET t2 == [t EXCEPT !.segments = Put(t.segments, "language", t.language)]
         IN  [transcript |-> t2, exc |-> "",
              output |-> write_result(writer_class, t2.segments, options)]

NoResponse ==
    [kind |-> "none", cls |-> "", media_type |-> "", content |-> <<>>,
     json |-> EmptyTranscript, exc |-> ""]

Raise(exc) == [NoResponse EXCEPT !.kind = "raise", !.exc = exc]

Response(content, media_type) ==
    [NoResponse EXCEPT !.kind = "response", !.cls = "Response", !.content = content,
                       !.media_type = media_type]

JSONResponse(content, media_type) ==
    [NoResponse EXCEPT !.kind = "response", !.cls = "JSONResponse", !.json = content,
                       !.media_type = media_type]

\* Returns the transcript as the call leaves it and the response or exception.
format_transcription(t, format, kwargs) ==
    LET defaults == [max_line_width |-> 1000, max_line_count |-> "None",
                     highlight_words |-> Get(kwargs, "highlight_words", FALSE)]
        options == update_options(kwargs, defaults)
        include_timestamps == Get(kwargs, "include_timestamps", FALSE)
        Written(writer_class, media_type) ==
            LET h == handle_whisperx_format(t, writer_class, options)
            IN  [transcript |-> h.transcript,
                 resp |-> IF h.exc # "" THEN Raise(h.exc)
                          ELSE Response(h.output, media_type)]
    IN  CASE format = "json" ->
               [transcript |-> t,
                resp |-> JSONResponse(Put(EmptyTranscript, "text", Get(t, "text", <<>>)),
                                      APPLICATION_JSON)]
          [] format = "verbose_json" ->
               [transcript |-> t, resp |-> JSONResponse(t, APPLICATION_JSON)]
          [] format = "vtt_json" ->
               LET h == handle_whisperx_format(t, "WriteVTT", options)
                   t3 == Put(h.transcript, "vtt_text", h.output)
               IN  IF h.exc # ""
                   THEN [transcript |-> h.transcript, resp |-> Raise(h.exc)]
                   ELSE [transcript |-> t3, resp |-> JSONResponse(t3, APPLICATION_JSON)]
          [] format = "text" ->
               [transcript |-> t, resp |-> Response(Get(t, "text", <<>>), TEXT_PLAIN)]
          [] format = "srt" -> Written("WriteSRT", TEXT_PLAIN)
          [] format = "vtt" -> Written("WriteVTT", TEXT_VTT)
          [] format = "aud" -> Written("WriteAudacity", TEXT_PLAIN)
          [] format = "md_basic" ->
               [transcript |-> t,
                resp |-> Response(format_md_basic(t, include_timestamps), TEXT_MARKDOWN)]
          [] format = "md_list" ->
               [transcript |-> t,
                resp |-> Response(format_md_list(t, include_timestamps), TEXT_MARKDOWN)]
          [] format = "md_quote" ->
               [transcript |-> t,
                resp |-> Response(format_md_quote(t, include_timestamps), TEXT_MARKDOWN)]
          [] format = "md_table" ->
               [transcript |-> t,
                resp |-> Response(format_md_table(t, include_timestamps), TEXT_MARKDOWN)]
          [] OTHER -> [transcript |-> t, resp |-> Raise("ValueError")]

SupportedFormats ==
    {"json", "verbose_json", "vtt_json", "text", "srt", "vtt", "aud",
     "md_basic", "md_list", "md_quote", "md_table"}

\* format names the service does not know (the comparison is case-sensitive)
OtherFormats == {"xml", "JSON", ""}

Formats == SupportedFormats \cup OtherFormats

NoCall == [format |-> "<none>", kwargs |-> CHOOSE k \in KwargsSamples : k.keys = {}]

(***************************************************************************)
(* dependencies.py                                                         *)
(***************************************************************************)
\* Python's None, and JSON's null once loaded
None == "<None>"

\* A loaded JSON document: an object mapping API keys to client names, or a
\* value of another JSON type.
Doc(ks, k1, k2) == [keys |-> ks, k1 |-> k1, k2 |-> k2]

EmptyDoc == Doc({}, None, None)

Object(doc) == [kind |-> "object", doc |-> doc]

NonObject == [kind |-> "nonobject", doc |-> EmptyDoc]

InvalidJson == [kind |-> "invalid", doc |-> EmptyDoc]

\* what a keys file may hold
FileContents ==
    { Object(EmptyDoc),
      Object(Doc({"k1"}, "alice", None)),
      Object(Doc({"k1", "k2"}, "alice", "bob")),
      Object(Doc({"k2"}, None, None)),
      Object(Doc({"k1"}, "", None)),
      NonObject,
      InvalidJson }

Mtimes == 1..MaxMtime

NoFile == [exists |-> FALSE, mtime |-> 0, content |-> InvalidJson]

\* bearer credentials a client may present
Credentials == {"dflt", "k1", "k2"}

\* Config() as get_config caches it: api_key may be None; api_keys_file is a
\* path or unset ("" stands for None and the empty path, both falsy)
Configs == [api_key : {"dflt", None}, api_keys_file : {"", "keys.json"}]

\* the one slot of lru_cache(maxsize=1); loaded_at is the mtime the file had
\* when the slot's value was read from it
EmptyCache ==
    [full |-> FALSE, file_path |-> "", file_mtime |-> 0, value |-> InvalidJson,
     loaded_at |-> 0]

\* _load_api_keys_cached with a cache keyed by the path alone
_load_api_keys_cached_by_path(c, file_path, file_mtime, f) ==
    IF c.full /\ c.file_path = file_path
    THEN [cache |-> c, exc |-> "", value |-> c.value, opened |-> FALSE,
          loaded_at |-> c.loaded_at]
    ELSE IF ~f.exists
    THEN [cache |-> c, exc |-> "FileNotFoundError", value |-> InvalidJson,
          opened |-> TRUE, loaded_at |-> 0]
    ELSE IF f.content.kind = "invalid"
    THEN [cache |-> c, exc |-> "JSONDecodeError", value |-> InvalidJson,
          opened |-> TRUE, loaded_at |-> 0]
    ELSE [cache |-> [full |-> TRUE, file_path |-> file_path, file_mtime |-> file_mtime,
                     value |-> f.content, loaded_at |-> f.mtime],
          exc |-> "", value |-> f.content, opened |-> TRUE, loaded_at |-> f.mtime]

\* Returns the cache as the call leaves it, the exception raised ("" for
\* none), the value returned, whether the file was opened and the mtime the
\* returned value was loaded under.
_load_api_keys_cached(c, file_path, file_mtime, f) ==
    IF c.full /\ c.file_path = file_path /\ c.file_mtime = file_mtime
    THEN [cache |-> c, exc |-> "", value |-> c.value, opened |-> FALSE,
          loaded_at |-> c.loaded_at]
    ELSE IF ~f.exists
    THEN [cache |-> c, exc |-> "FileNotFoundError", value |-> InvalidJson,
          opened |-> TRUE, loaded_at |-> 0]
    ELSE IF f.content.kind = "invalid"
    THEN [cache |-> c, exc |-> "JSONDecodeError", value |-> InvalidJson,
          opened |-> TRUE, loaded_at |-> 0]
    ELSE [cache |-> [full |-> TRUE, file_path |-> file_path, file_mtime |-> file_mtime,
                     value |-> f.content, loaded_at |-> f.mtime],
          exc |-> "", value |-> f.content, opened |-> TRUE, loaded_at |-> f.mtime]

\* _get_api_keys without the handler for json.JSONDecodeError
_get_api_keys_decode_error_escapes(c, api_keys_file, f) ==
    IF api_keys_file = ""
    THEN [cache |-> c, api_keys |-> Object(EmptyDoc), loaded |-> FALSE, opened |-> FALSE,
          loaded_at |-> 0, exc |-> ""]
    ELSE IF ~f.exists
    THEN [cache |-> c, api_keys |-> Object(EmptyDoc), loaded |-> FALSE, opened |-> FALSE,
          loaded_at |-> 0, exc |-> ""]
    ELSE LET r == _load_api_keys_cached(c, api_keys_file, f.mtime, f)
         IN  IF r.exc \in {"FileNotFoundError"}
             THEN [cache |-> r.cache, api_keys |-> Object(EmptyDoc), loaded |-> FALSE,
                   opened |-> r.opened, loaded_at |-> 0, exc |-> ""]
             ELSE [cache |-> r.cache, api_keys |-> r.value, loaded |-> r.exc = "",
                   opened |-> r.opened, loaded_at |-> r.loaded_at, exc |-> r.exc]

\* Returns, besides the key set, what the lookup did: the cache it leaves,
\* whether _load_api_keys_cached returned a value (loaded), whether the file
\* was opened, and the exception that escapes ("" for none).
_get_api_keys(c, api_keys_file, f) ==
    IF api_keys_file = ""
    THEN [cache |-> c, api_keys |-> Object(EmptyDoc), loaded |-> FALSE, opened |-> FALSE,
          loaded_at |-> 0, exc |-> ""]
    ELSE IF ~f.exists
    THEN [cache |-> c, api_keys |-> Object(EmptyDoc), loaded |-> FALSE, opened |-> FALSE,
          loaded_at |-> 0, exc |-> ""]
    ELSE LET r == _load_api_keys_cached(c, api_keys_file, f.mtime, f)
         IN  IF r.exc \in {"FileNotFoundError", "JSONDecodeError"}
             THEN [cache |-> r.cache, api_keys |-> Object(EmptyDoc), loaded |-> FALSE,
                   opened |-> r.opened, loaded_at |-> 0, exc |-> ""]
             ELSE [cache |-> r.cache, api_keys |-> r.value, loaded |-> TRUE,
                   opened |-> r.opened, loaded_at |-> r.loaded_at, exc |-> r.exc]

\* check_credentials rejecting when either test fails
check_credentials_either(cfg, credentials, api_keys) ==
    IF api_keys.kind # "object"
    THEN [outcome |-> "error", exc |-> "AttributeError", detail |-> "", log |-> ""]
    ELSE LET client_name == IF credentials \in api_keys.doc.keys
                            THEN api_keys.doc[credentials]
                            ELSE None
         IN  IF credentials # cfg.api_key \/ client_name = None
             THEN [outcome |-> "403", exc |-> "HTTPException", detail |-> "Invalid API Key",
                   log |-> ""]
             ELSE IF client_name # None /\ client_name # ""
             THEN [outcome |-> "ok", exc |-> "", detail |-> "", log |-> "client"]
             ELSE [outcome |-> "ok", exc |-> "", detail |-> "", log |-> "default"]

\* The part of verify_api_key after the lookup: the outcome for a credential
\* given the looked-up keys.
check_credentials(cfg, credentials, api_keys) ==
    IF api_keys.kind # "object"
    THEN [outcome |-> "error", exc |-> "AttributeError", detail |-> "", log |-> ""]
    ELSE LET client_name == IF credentials \in api_keys.doc.keys
                            THEN api_keys.doc[credentials]
                            ELSE None
         IN  IF credentials # cfg.api_key /\ client_name = None
             THEN [outcome |-> "403", exc |-> "HTTPException", detail |-> "Invalid API Key",
                   log |-> ""]
             ELSE IF client_name # None /\ client_name # ""
             THEN [outcome |-> "ok", exc |-> "", detail |-> "", log |-> "client"]
             ELSE [outcome |-> "ok", exc |-> "", detail |-> "", log |-> "default"]

\* the last lookup in which _load_api_keys_cached returned a value
NoLookup == [ok |-> FALSE, mtime |-> 0, keys |-> InvalidJson]

\* The record of the last request: what verify_api_key was given, what the
\* key-file lookup saw (file_seen, the cache and the last successful lookup
\* before it) and did, and the outcome.  mtimes are the mtimes under which
\* lookups have loaded keys so far, failed tells whether a lookup has found the
\* file missing or invalid so far; the *_before fields hold both as they were
\* when the request came in.
NoAuth ==
    [credentials |-> "", outcome |-> "none", exc |-> "", detail |-> "", log |-> "",
     api_keys |-> InvalidJson, loaded |-> FALSE, opened |-> FALSE, loaded_at |-> 0,
     file_seen |-> NoFile, cache_before |-> EmptyCache,
     before |-> NoLookup, last |-> NoLookup,
     mtimes_before |-> {}, mtimes |-> {}, failed_before |-> FALSE, failed |-> FALSE]

AuthInit ==
    /\ config \in Configs
    /\ file \in {NoFile} \cup [exists : {TRUE}, mtime : Mtimes, content : FileContents]
    /\ cache = EmptyCache
    /\ auth = NoAuth

\* the keys file is written (by whoever manages it), with any mtime
WriteKeysFile ==
    /\ \E m \in Mtimes, content \in FileContents :
          file' = [exists |-> TRUE, mtime |-> m, content |-> content]
    /\ UNCHANGED <<cache, config, auth>>
    /\ UNCHANGED fmtVars

RemoveKeysFile ==
    /\ file.exists
    /\ file' = NoFile
    /\ UNCHANGED <<cache, config, auth>>
    /\ UNCHANGED fmtVars

\* One request: the lookup (stat and open see the same file) and the test of
\* the credential.
verify_api_key ==
    /\ \E credentials \in Credentials :
          LET g == _get_api_keys(cache, config.api_keys_file, file)
              v == IF g.exc # ""
                   THEN [outcome |-> "error", exc |-> g.exc, detail |-> "", log |-> ""]
                   ELSE check_credentials(config, credentials, g.api_keys)
          IN  /\ cache' = g.cache
              /\ auth' = [credentials |-> credentials, outcome |-> v.outcome, exc |-> v.exc,
                          detail |-> v.detail, log |-> v.log,
                          api_keys |-> g.api_keys, loaded |-> g.loaded, opened |-> g.opened,
                          loaded_at |-> g.loaded_at,
                          file_seen |-> file, cache_before |-> cache,
                          before |-> auth.last,
                          last |-> IF g.loaded
                                   THEN [ok |-> TRUE, mtime |-> file.mtime, keys |-> g.api_keys]
                                   ELSE auth.last,
                          mtimes_before |-> auth.mtimes,
                          mtimes |-> IF g.loaded THEN auth.mtimes \cup {file.mtime}
                                     ELSE auth.mtimes,
                          failed_before |-> auth.failed,
                          failed |-> auth.failed \/
                                     (config.api_keys_file # "" /\ ~g.loaded /\ g.exc = "")]
    /\ UNCHANGED <<file, config>>
    /\ UNCHANGED fmtVars

(***************************************************************************)
(* The formatting layer as a state machine: a transcript record is         *)
(* supplied, one call of format_transcription formats it.                  *)
(***************************************************************************)
FmtInit ==
    /\ transcript \in Transcripts
    /\ call = NoCall
    /\ resp = NoResponse

\* format_transcription with a plain-text fallback for unknown format names
FormatTranscription_TextFallback ==
    /\ call = NoCall
    /\ \E format \in Formats, kwargs \in KwargsSamples :
          LET r == IF format \in SupportedFormats
                   THEN format_transcription(transcript, format, kwargs)
                   ELSE [transcript |-> transcript,
                         resp |-> Response(Get(transcript, "text", <<>>), TEXT_PLAIN)]
          IN  /\ transcript' = r.transcript
              /\ resp' = r.resp
              /\ call' = [format |-> format, kwargs |-> kwargs]
    /\ UNCHANGED authVars

FormatTranscription ==
    /\ call = NoCall
    /\ \E format \in Formats, kwargs \in KwargsSamples :
          LET r == format_transcription(transcript, format, kwargs)
          IN  /\ transcript' = r.transcript
              /\ resp' = r.resp
              /\ call' = [format |-> format, kwargs |-> kwargs]
    /\ UNCHANGED authVars

AuthIdle ==
    /\ file = NoFile
    /\ cache = EmptyCache
    /\ config = [api_key |-> None, api_keys_file |-> ""]
    /\ auth = NoAuth

Init == FmtInit /\ AuthIdle

Next == FormatTranscription

Spec == Init /\ [][Next]_vars

(***************************************************************************)
(* Request authentication as a state machine: the keys file is written and *)
(* removed from outside, each request runs verify_api_key.                 *)
(***************************************************************************)
FmtIdle ==
    /\ transcript = EmptyTranscript
    /\ call = NoCall
    /\ resp = NoResponse

AuthSpecInit == AuthInit /\ FmtIdle

AuthNext == WriteKeysFile \/ RemoveKeysFile \/ verify_api_key

AuthSpec == AuthSpecInit /\ [][AuthNext]_vars

(***************************************************************************)
(* Properties of the formatting layer                                      *)
(***************************************************************************)
\* the segment list of a transcript, whichever of the two shapes it has
SegmentsOf(t) == t.segments.segments

HasText(seg) == "text" \in seg.keys /\ \E i \in 1..Len(seg.text) : seg.text[i] \notin Whitespace

\* the text without its leading and trailing whitespace
Trimmed(text) ==
    LET solid == {i \in 1..Len(text) : text[i] \notin Whitespace}
        first == CHOOSE i \in solid : \A j \in solid : i <= j
        last == CHOOSE i \in solid : \A j \in solid : j <= i
    IN  IF solid = {} THEN <<>> ELSE SubSeq(text, first, last)

SpeakerName(seg) == IF "speaker" \in seg.keys THEN seg.speaker ELSE "Unknown"

StartOf(seg) == IF "start" \in seg.keys THEN seg.start ELSE 0

Kept(t) == SelectSeq(SegmentsOf(t), HasText)

RECURSIVE Intercalate(_, _)
Intercalate(parts, sep) ==
    IF Len(parts) = 0 THEN <<>>
    ELSE IF Len(parts) = 1 THEN parts[1]
    ELSE parts[1] \o sep \o Intercalate(Tail(parts), sep)

MdEntry(format, seg, stamped) ==
    (CASE format = "md_basic" -> <<SpeakerName(seg)>>
       [] format = "md_list" -> <<"-", " ", "**", SpeakerName(seg), "**">>
       [] format = "md_quote" -> <<">", " ", "**", SpeakerName(seg), "**">>)
    \o (IF stamped THEN <<" ", "[">> \o _format_timestamp(StartOf(seg)) \o <<"]">> ELSE <<>>)
    \o <<":", " ">> \o Trimmed(seg.text)

MdSeparator(format) ==
    CASE format = "md_basic" -> <<"\n", "\n">>
      [] format = "md_list" -> <<"\n">>
      [] format = "md_quote" -> <<"\n", ">", "\n">>

MdExpected(format, t, stamped) ==
    LET kept == Kept(t)
    IN  Intercalate([i \in 1..Len(kept) |-> MdEntry(format, kept[i], stamped)],
                    MdSeparator(format))

Stamped == "include_timestamps" \in call.kwargs.keys /\ call.kwargs.include_timestamps

ExpectedMediaType(format) ==
    CASE format \in {"json", "verbose_json", "vtt_json"} -> "application/json"
      [] format \in {"text", "srt", "aud"} -> "text/plain"
      [] format = "vtt" -> "text/vtt"
      [] format \in {"md_basic", "md_list", "md_quote", "md_table"} -> "text/markdown"

\* C1: for every supported format name, format_transcription returns a response
\* whose media type is the one the format determines.
C1_ResponseForEverySupportedFormat ==
    call.format \in SupportedFormats =>
        /\ resp.kind = "response"
        /\ resp.media_type = ExpectedMediaType(call.format)

\* C1 (what the code does keep): whenever format_transcription returns a
\* response, its media type is the one the format determines.
C1_MediaTypeWhenReturned ==
    (call.format \in SupportedFormats /\ resp.kind = "response") =>
        resp.media_type = ExpectedMediaType(call.format)

\* C2: a call with a format name outside the supported set raises ValueError,
\* returns no response and leaves the transcript record unchanged.
C2_UnsupportedFormatRaises ==
    [][(call = NoCall /\ call' # NoCall /\ call'.format \notin SupportedFormats) =>
          (resp' = Raise("ValueError") /\ transcript' = transcript)]_vars

C2_Witness ==
    /\ call.format = "JSON"
    /\ resp.kind = "raise"
    /\ resp.exc = "ValueError"
    /\ "language" \in transcript.keys
    /\ transcript.segments.type = "dict"
    /\ Len(SegmentsOf(transcript)) > 0

\* C7: for both transcript shapes, md_basic, md_list and md_quote emit exactly
\* one entry per segment whose trimmed text is non-empty, in the original order,
\* skip the other segments, name a segment without a speaker 'Unknown', and
\* yield empty output for a transcript with no segments.
C7_OneEntryPerSpokenSegment ==
    call.format \in {"md_basic", "md_list", "md_quote"} =>
        /\ resp = Response(MdExpected(call.format, transcript, Stamped), TEXT_MARKDOWN)
        /\ (Len(SegmentsOf(transcript)) = 0 => resp.content = <<>>)

C7_Witness ==
    /\ call.format = "md_quote"
    /\ resp.kind = "response"
    /\ transcript.segments.type = "dict"
    /\ Len(SegmentsOf(transcript)) = 3
    /\ Len(Kept(transcript)) = 2
    /\ \E i \in 1..2 : "speaker" \notin Kept(transcript)[i].keys
    /\ Len(resp.content) > 0

TableSpeakers(t) == {SpeakerName(Kept(t)[i]) : i \in 1..Len(Kept(t))}

TableCell(seg, stamped) ==
    (IF stamped THEN <<"[">> \o _format_timestamp(StartOf(seg)) \o <<"]", " ">> ELSE <<>>)
    \o EscapePipes(Trimmed(seg.text))

\* the two-column layout: the speakers head the columns in order of first
\* appearance, each row has its text in its own speaker's column
TwoColumnExpected(t, stamped) ==
    LET kept == Kept(t)
        first == SpeakerName(kept[1])
        j == CHOOSE i \in 1..Len(kept) :
                /\ SpeakerName(kept[i]) # first
                /\ \A k \in 1..(i - 1) : SpeakerName(kept[k]) = first
        second == SpeakerName(kept[j])
        Row(seg) ==
            IF SpeakerName(seg) = first
            THEN <<"|", " ">> \o TableCell(seg, stamped) \o <<" ", "|", " ", " ", "|">>
            ELSE <<"|", " ", " ", "|", " ">> \o TableCell(seg, stamped) \o <<" ", "|">>
    IN  Intercalate(<< <<"|", " ", first, " ", "|", " ", second, " ", "|">>,
                       <<"|", " ", "---", " ", "|", " ", "---", " ", "|">> >>
                    \o [i \in 1..Len(kept) |-> Row(kept[i])], <<"\n">>)

TimeHeader == <<"|", " ", "Time", " ", "|", " ", "Speaker", " ", "|", " ", "Message", " ", "|">>

PlainHeader == <<"|", " ", "Speaker", " ", "|", " ", "Message", " ", "|">>

\* the one-row-per-segment layout under a given header
MultiColumnExpected(t, stamped, header) ==
    LET kept == Kept(t)
        rule == IF stamped
                THEN <<"|", " ", "---", " ", "|", " ", "---", " ", "|", " ", "---", " ", "|">>
                ELSE <<"|", " ", "---", " ", "|", " ", "---", " ", "|">>
        Row(seg) ==
            <<"|", " ">>
            \o (IF stamped THEN _format_timestamp(StartOf(seg)) \o <<" ", "|", " ">> ELSE <<>>)
            \o <<SpeakerName(seg), " ", "|", " ">> \o EscapePipes(Trimmed(seg.text))
            \o <<" ", "|">>
    IN  Intercalate(<<header, rule>> \o [i \in 1..Len(kept) |-> Row(kept[i])], <<"\n">>)

FirstLine(content) ==
    LET breaks == {i \in 1..Len(content) : content[i] = "\n"}
        b == CHOOSE i \in breaks : \A k \in breaks : i <= k
    IN  IF breaks = {} THEN content ELSE SubSeq(content, 1, b - 1)

Requested == auth.outcome # "none"

FileConfigured == config.api_keys_file # ""

\* the file's mtime is that of the previous successful lookup
SameMtime == auth.before.ok /\ auth.before.mtime = auth.file_seen.mtime

Accepted == auth.outcome = "ok"

Rejected403 ==
    auth.outcome = "403" /\ auth.exc = "HTTPException" /\ auth.detail = "Invalid API Key"

\* C3 as stated: a request is accepted if and only if its credential is the
\* default API key or a key present in the keys file; every other credential
\* is rejected with 403 'Invalid API Key'.
C3_AsStated ==
    Requested =>
        LET seen == auth.file_seen
            inFile == /\ FileConfigured
                      /\ seen.exists
                      /\ seen.content.kind = "object"
                      /\ auth.credentials \in seen.content.doc.keys
        IN  /\ Accepted <=> (auth.credentials = config.api_key \/ inFile)
            /\ ~Accepted => Rejected403

\* the key document a lookup yields: empty without a usable file, the keys of
\* the previous successful lookup while the mtime is the same, else the file's
EffectiveKeys ==
    IF ~FileConfigured \/ ~auth.file_seen.exists THEN Object(EmptyDoc)
    ELSE IF SameMtime THEN auth.before.keys
    ELSE IF auth.file_seen.content.kind = "invalid" THEN Object(EmptyDoc)
    ELSE auth.file_seen.content

\* C3 amended: a request is accepted if and only if its credential is the
\* default API key or a key with a non-null client name in the key document the
\* lookup yields (loaded from the file, reused while the file's mtime is
\* unchanged, empty without a usable file); every other credential is rejected
\* with 403 'Invalid API Key'.  A loaded document that is not a JSON object
\* makes the request fail with AttributeError.
C3_AcceptsIffKnownKey ==
    Requested =>
        LET eff == EffectiveKeys
        IN  IF eff.kind # "object"
            THEN auth.outcome = "error" /\ auth.exc = "AttributeError"
            ELSE /\ Accepted <=>
                      \/ auth.credentials = config.api_key
                      \/ /\ auth.credentials \in eff.doc.keys
                         /\ eff.doc[auth.credentials] # None
                 /\ ~Accepted => Rejected403

C3_Witness ==
    /\ Accepted
    /\ auth.credentials = "k2"
    /\ config.api_key = "dflt"
    /\ auth.file_seen.exists
    /\ auth.file_seen.content = Object(Doc({"k1"}, "alice", None))
    /\ SameMtime

\* C4: a lookup made while the file's mtime equals that of the previous
\* successful lookup returns the cached keys without reading the file; a lookup
\* made after the mtime changed (also back to an earlier value) reads the file
\* again, and no lookup returns keys loaded under another mtime.
C4_CacheFollowsMtime ==
    (Requested /\ FileConfigured /\ auth.file_seen.exists) =>
        /\ SameMtime =>
              /\ ~auth.opened
              /\ auth.loaded
              /\ auth.api_keys = auth.before.keys
        /\ ~SameMtime =>
              /\ auth.opened
              /\ auth.file_seen.content.kind # "invalid" =>
                    (auth.loaded /\ auth.api_keys = auth.file_seen.content)
        /\ auth.loaded => auth.loaded_at = auth.file_seen.mtime

C4_Witness ==
    /\ Requested
    /\ auth.before.ok
    /\ auth.before.mtime # auth.file_seen.mtime
    /\ auth.file_seen.mtime \in auth.mtimes_before
    /\ auth.opened
    /\ auth.loaded
    /\ auth.api_keys # auth.before.keys
    /\ auth.api_keys = Object(Doc({"k1", "k2"}, "alice", "bob"))

Unusable ==
    \/ ~FileConfigured
    \/ ~auth.file_seen.exists
    \/ auth.file_seen.content.kind = "invalid"

OnlyDefaultKeyAuthorizes ==
    /\ auth.api_keys = Object(EmptyDoc)
    /\ auth.outcome \in {"ok", "403"}
    /\ Accepted <=> auth.credentials = config.api_key

\* C5 as stated: with no keys file configured, a missing file or invalid JSON
\* the lookup returns an empty key set, so only the default key authorizes;
\* the failure is not cached, so a later lookup with the file present and valid
\* returns that file's keys.
C5_AsStated ==
    Requested =>
        /\ Unusable => OnlyDefaultKeyAuthorizes
        /\ (auth.failed_before /\ ~Unusable) => auth.api_keys = auth.file_seen.content

\* C5 amended: the same, except while the file's mtime equals that of the
\* previous successful lookup: then the keys cached by that lookup are returned,
\* whatever the file holds now.
C5_FallbackToEmpty ==
    Requested =>
        /\ (Unusable /\ ~(FileConfigured /\ auth.file_seen.exists /\ SameMtime)) =>
              (OnlyDefaultKeyAuthorizes /\ cache = auth.cache_before)
        /\ (auth.failed_before /\ ~Unusable /\ ~SameMtime) =>
              auth.api_keys = auth.file_seen.content
        /\ (FileConfigured /\ auth.file_seen.exists /\ SameMtime) =>
              auth.api_keys = auth.before.keys

C5_Witness ==
    /\ Accepted
    /\ auth.failed_before
    /\ auth.before.ok
    /\ auth.cache_before.full
    /\ ~Unusable
    /\ ~SameMtime
    /\ auth.credentials = "k1"
    /\ config.api_key = None
    /\ auth.api_keys = Object(Doc({"k1"}, "alice", None))

====
